---- MODULE Spec2Model ----
(***************************************************************************)
(* A model of tensor_beasts' World (src/tensor_beasts/world.py): the packed *)
(* uint8 world tensor, the feature views over it, and the rules of a tick   *)
(* (grow, germinate, move, eat, diffuse_scent, clear_on_death).             *)
(* The helpers imported from tensor_beasts.util are not part of the source  *)
(* at hand; they are modelled from the written specification.               *)
(***************************************************************************)
EXTENDS Integers, Sequences, FiniteSets, TLC

\* Side of the square grid: World(size) has width = height = size.
GridSize == 5

Idx == 0 .. (GridSize - 1)
Cells == Idx \X Idx

InGrid(r, c) == r \in Idx /\ c \in Idx

\* F applied to the value of v. TLC hands an operator its arguments, and a
\* LET its definitions, unevaluated; a bound variable holds a value, so what
\* F does with its argument is computed from a value computed once.
Let(v, F(_)) == CHOOSE r \in {F(x) : x \in {v}} : TRUE

\* A field written out cell by cell: g @@ g is g, tabulated.
Tab(g) == Let(g, LAMBDA x : x @@ x)

ZeroGrid == Tab([x \in Cells |-> 0])

\* The sum of row r of g from column c on, and of the rows of g from r on.
RECURSIVE RowSum(_, _, _)
RowSum(g, r, c) == IF c = GridSize THEN 0 ELSE g[<<r, c>>] + RowSum(g, r, c + 1)

RECURSIVE RowsSum(_, _)
RowsSum(g, r) == IF r = GridSize THEN 0 ELSE RowSum(g, r, 0) + RowsSum(g, r + 1)

\* torch.sum of a field.
GridSum(g) == RowsSum(g, 0)

---------------------------------------------------------------------------
(* uint8 arithmetic *)

\* A raw torch.uint8 operation (+, -, *, +=): the result modulo 256.
U8(x) == x % 256

\* util.safe_add on values: addition that saturates at 255.
safe_add(a, b) == IF a + b > 255 THEN 255 ELSE a + b

\* util.safe_sub on values: subtraction that saturates at 0.
safe_sub(a, b) == IF a < b THEN 0 ELSE a - b

---------------------------------------------------------------------------
(* Windowed operators of tensor_beasts.util *)

Directions == 1 .. 4

\* Row and column step of direction d: 1 = N, 2 = E, 3 = S, 4 = W.
DRow(d) == CASE d = 1 -> -1 [] d = 3 -> 1 [] OTHER -> 0
DCol(d) == CASE d = 2 -> 1 [] d = 4 -> -1 [] OTHER -> 0

\* The value of g at (r, c), and cval outside the grid (mode='constant').
At(g, r, c, cval) == IF InGrid(r, c) THEN g[<<r, c>>] ELSE cval

\* The first direction, in the order N, E, S, W, whose neighbour value is the
\* largest of the four, when that value exceeds the cell's own; else 0 (stay).
DirectionOf(own, v) ==
    IF \A d \in Directions : v[d] <= own THEN 0
    ELSE CHOOSE d \in Directions :
             /\ \A e \in Directions : v[e] <= v[d]
             /\ \A e \in 1 .. (d - 1) : v[e] < v[d]

\* util.get_direction_matrix: at each cell the direction of the largest of the
\* four axis neighbours when it exceeds the cell's own value (the first of
\* N, E, S, W on a tie), and 0 (stay) otherwise.
get_direction_matrix(t) ==
    Tab([x \in Cells |->
        DirectionOf(t[x], <<At(t, x[1] - 1, x[2], 0), At(t, x[1], x[2] + 1, 0),
                            At(t, x[1] + 1, x[2], 0), At(t, x[1], x[2] - 1, 0)>>)])

\* util.directional_kernel_set(size)[d]: the offsets, within the size x size
\* window around a cell, of the cells lying on the d side of it.
directional_kernel_set(size, d) ==
    {o \in ((-(size \div 2)) .. (size \div 2)) \X ((-(size \div 2)) .. (size \div 2)) :
        CASE d = 1 -> o[1] < 0
          [] d = 2 -> o[2] > 0
          [] d = 3 -> o[1] > 0
          [] OTHER -> o[2] < 0}

\* util.torch_correlate_2d(mask, kernel, mode='constant', cval) cast to bool,
\* for a 0/1 kernel given by its offsets: nonzero iff some covered cell is
\* nonzero (cells outside the grid count as cval).
correlate_any(mask, offsets, x, cval) ==
    \E o \in offsets : At(mask, x[1] + o[1], x[2] + o[2], cval) # 0

\* util.safe_sum: the saturating sum of a list of fields.
RECURSIVE safe_sum(_)
safe_sum(gs) ==
    IF Len(gs) = 1 THEN gs[1]
    ELSE Let(<<gs[1], safe_sum(Tail(gs))>>,
             LAMBDA a : Tab([x \in Cells |-> safe_add(a[1][x], a[2][x])]))

---------------------------------------------------------------------------
(* World.move *)

\* The defaults of World.move.
clearance_kernel_size == 5
divide_threshold == 250
divide_fn_self(x) == x \div 2
\* A variant of divide_fn_offspring that leaves half at the origin.
divide_fn_offspring_half(x) == x \div 2
divide_fn_offspring(x) == x \div 4

\* (field * weight).type(torch.uint8) for the weight num/den <= 1.
Weighted(g, num, den) == Tab([x \in Cells |-> (g[x] * num) \div den])

\* World.update_id, the in-place part: ids[:, :, 1][ids[:, :, 0] == 255] += 1
\* on the id group (id_0, id_1) of the world w.
update_id(w, id_0, id_1) ==
    [w EXCEPT ![id_1] =
        Tab([x \in Cells |-> IF w[id_0][x] = 255 THEN U8(w[id_1][x] + 1)
                             ELSE w[id_1][x]])]

\* The value of a carried-feature function at a cell value v. The functions
\* handed to move by update: x // 2, x // 4, safe_add(x, 1), x, x + 1.
ApplyFn(fn, v) ==
    CASE fn = "divide_fn_self" -> divide_fn_self(v)
      [] fn = "divide_fn_offspring" -> divide_fn_offspring(v)
      [] fn = "safe_add_1" -> safe_add(v, 1)
      [] fn = "plus_1" -> U8(v + 1)
      [] OTHER -> v

\* clearance_mask of World.move when none is given: entity_energy > 0.
ClearanceMask(entity_energy) ==
    Tab([x \in Cells |-> IF entity_energy[x] > 0 THEN 1 ELSE 0])

\* One direction mask, from the clearance mask and the direction matrix.
DirectionMask(d, entity_energy, clearance_mask, directions, kernel) ==
    Tab([x \in Cells |->
        IF /\ directions[x] = d
           /\ entity_energy[x] > 0
           /\ ~ correlate_any(clearance_mask, kernel, x, 1)
        THEN 1 ELSE 0])

\* direction_masks of World.move: dm[d][x] = 1 where an entity is present at
\* x, wants to go in direction d, and the clearance window on that side holds
\* no occupied cell (cells outside the grid count as occupied).
direction_masks(entity_energy, target_energy) ==
    Let(<<ClearanceMask(entity_energy), get_direction_matrix(target_energy),
          Tab([d \in Directions |-> directional_kernel_set(clearance_kernel_size, d)])>>,
        LAMBDA c :
            Tab([d \in Directions |->
                    DirectionMask(d, entity_energy, c[1], c[2], c[3][d])]))

move_origin_mask(dm) == Tab([x \in Cells |-> \E d \in Directions : dm[d][x] # 0])

offspring_mask(dm, entity_energy) ==
    Let(move_origin_mask(dm),
        LAMBDA origin : Tab([x \in Cells |-> origin[x] /\ entity_energy[x] > divide_threshold]))

\* A variant of vacated_mask that compares with < instead of <=.
vacated_mask_strict(dm, entity_energy) ==
    Let(move_origin_mask(dm),
        LAMBDA origin : Tab([x \in Cells |-> origin[x] /\ entity_energy[x] < divide_threshold]))

vacated_mask(dm, entity_energy) ==
    Let(move_origin_mask(dm),
        LAMBDA origin : Tab([x \in Cells |-> origin[x] /\ entity_energy[x] <= divide_threshold]))

\* What direction d sends from cell x: torch.where((dm[d] * entity_energy) >
\* threshold, dm[d] * fn(feature), dm[d] * feature) at x.
Outgoing(dm, d, energy_now, feature, fn, x) ==
    IF U8(dm[d][x] * energy_now[x]) > divide_threshold
    THEN U8(dm[d][x] * ApplyFn(fn, feature[x]))
    ELSE U8(dm[d][x] * feature[x])

\* pad_matrix(torch.where(...), d) at cell x: util.pad_matrix shifts the
\* field by one cell in direction d, so x receives what direction d sends
\* from the cell behind it, and 0 where the padding is shifted in.
Shifted(dm, d, energy_now, feature, fn, x) ==
    IF InGrid(x[1] - DRow(d), x[2] - DCol(d))
    THEN Outgoing(dm, d, energy_now, feature, fn, <<x[1] - DRow(d), x[2] - DCol(d)>>)
    ELSE 0

\* torch.sum(torch.stack([pad_matrix(..., d) for d in 1..4]), dim=0): the
\* int64 sum of what the four directions shift into each cell.
Incoming(dm, energy_now, feature, fn) ==
    Tab([x \in Cells |->
        Shifted(dm, 1, energy_now, feature, fn, x)
        + Shifted(dm, 2, energy_now, feature, fn, x)
        + Shifted(dm, 3, energy_now, feature, fn, x)
        + Shifted(dm, 4, energy_now, feature, fn, x)])

\* One round of the destination loop of World.move: safe_add(feature, sum).
DestinationStep(w, dm, energy, f, fn) ==
    Let(Incoming(dm, w[energy], w[f], fn),
        LAMBDA inc : [w EXCEPT ![f] = Tab([x \in Cells |-> safe_add(w[f][x], inc[x])])])

\* The destination loop of World.move over (feature, fn) pairs, in place:
\* each feature becomes the union of what stayed and what moved in.
RECURSIVE DestinationUpdate(_, _, _, _, _)
DestinationUpdate(w, dm, energy, feats, fns) ==
    IF feats = <<>> THEN w
    ELSE Let(DestinationStep(w, dm, energy, Head(feats), Head(fns)),
             LAMBDA w1 : DestinationUpdate(w1, dm, energy, Tail(feats), Tail(fns)))

\* One round of the offspring loop of World.move: feature[:] =
\* torch.where(offspring_mask, fn(feature), feature). The lambda calling
\* update_id changes id_1 of the id group in place, and returns it, before
\* torch.where reads the feature.
OffspringStep(w, om, f, fn, ids) ==
    IF fn = "update_id"
    THEN Let(update_id(w, ids[1], ids[2]),
             LAMBDA w1 : [w1 EXCEPT ![f] =
                 Tab([x \in Cells |-> IF om[x] THEN w1[ids[2]][x] ELSE w1[f][x]])])
    ELSE [w EXCEPT ![f] =
             Tab([x \in Cells |-> IF om[x] THEN ApplyFn(fn, w[f][x]) ELSE w[f][x]])]

\* The offspring loop of World.move.
RECURSIVE OffspringUpdate(_, _, _, _, _)
OffspringUpdate(w, om, feats, fns, ids) ==
    IF feats = <<>> THEN w
    ELSE Let(OffspringStep(w, om, Head(feats), Head(fns), ids),
             LAMBDA w1 : OffspringUpdate(w1, om, Tail(feats), Tail(fns), ids))

\* One round of the clearing loop of World.move: feature[:] *= ~vacated_mask.
VacatedStep(w, vm, f) ==
    [w EXCEPT ![f] = Tab([x \in Cells |-> IF vm[x] THEN 0 ELSE w[f][x]])]

\* The clearing loop of World.move.
RECURSIVE VacatedUpdate(_, _, _)
VacatedUpdate(w, vm, feats) ==
    IF feats = <<>> THEN w
    ELSE Let(VacatedStep(w, vm, Head(feats)),
             LAMBDA w1 : VacatedUpdate(w1, vm, Tail(feats)))

\* The masks of World.move: direction_masks, offspring_mask, vacated_mask.
MoveMasks(entity_energy, target_energy) ==
    Let(direction_masks(entity_energy, target_energy),
        LAMBDA dm : [dm |-> dm,
                     om |-> offspring_mask(dm, entity_energy),
                     vm |-> vacated_mask(dm, entity_energy)])

\* The three loops of World.move, given its masks.
MoveLoops(w, p, m) ==
    Let(DestinationUpdate(w, m.dm, p.energy,
            <<p.energy>> \o p.carried_self, <<"divide_fn_self">> \o p.fns_self),
        LAMBDA w1 :
            Let(OffspringUpdate(w1, m.om,
                    <<p.energy>> \o p.carried_offspring,
                    <<"divide_fn_offspring">> \o p.fns_offspring, p.ids),
                LAMBDA w2 :
                    VacatedUpdate(w2, m.vm,
                        <<p.energy>> \o p.carried_self \o p.carried_offspring)))

\* World.move on the world w for the call described by p: the energy feature,
\* the target field, the carried features with their functions, and the id
\* group that the offspring lambda hands to update_id.
move(w, p) ==
    Let(MoveMasks(w[p.energy], p.target), LAMBDA m : MoveLoops(w, p, m))

\* target_energy of World.move: the saturating sum of the weighted targets
\* minus (saturating) the saturating sum of the weighted opposites.
target_field(targets, opposites) ==
    Let(<<safe_sum(targets), safe_sum(opposites)>>,
        LAMBDA to : Tab([x \in Cells |-> safe_sub(to[1][x], to[2][x])]))

\* The herbivore call of move in World.update.
HerbivoreMove(w) ==
    [energy |-> "herb_energy",
     target |-> target_field(<<Weighted(w.plant_scent, 1, 2)>>,
                             <<Weighted(w.herb_scent, 1, 10),
                               Weighted(w.pred_scent, 1, 1)>>),
     carried_self |-> <<"herb_offspring_count", "herb_id_0", "herb_id_1">>,
     fns_self |-> <<"safe_add_1", "identity", "identity">>,
     carried_offspring |-> <<"herb_id_1", "herb_id_0">>,
     fns_offspring |-> <<"update_id", "plus_1">>,
     ids |-> <<"herb_id_0", "herb_id_1">>]

\* The predator call of move in World.update. Its offspring features are the
\* herbivore's id_1 and id_0, and its lambda updates the predator id group.
PredatorMove(w) ==
    [energy |-> "pred_energy",
     target |-> target_field(<<Weighted(w.herb_scent, 1, 1)>>,
                             <<Weighted(w.pred_scent, 1, 1)>>),
     carried_self |-> <<"pred_offspring_count", "pred_id_0", "pred_id_1">>,
     fns_self |-> <<"safe_add_1", "identity", "identity">>,
     carried_offspring |-> <<"herb_id_1", "herb_id_0">>,
     fns_offspring |-> <<"update_id", "plus_1">>,
     ids |-> <<"pred_id_0", "pred_id_1">>]

\* move as update() calls it for the herbivores and for the predators.
move_herbivore(w) == Let(w, LAMBDA v : Let(HerbivoreMove(v), LAMBDA p : move(v, p)))
move_predator(w) == Let(w, LAMBDA v : Let(PredatorMove(v), LAMBDA p : move(v, p)))

---------------------------------------------------------------------------
(* The scalars of World.__init__ and the defaults of World.eat *)

plant_growth_step_modulo == 2
plant_growth_odds == 255
plant_germination_odds == 255
plant_crowding_odds == 25
plant_seed_odds == 255
herbivore_eat_max == 16
predator_eat_max == 255
eat_efficiency_loss == 4

---------------------------------------------------------------------------
(* World.eat, World.germinate, World.grow, World.diffuse_scent *)

\* A variant of eat that takes eat_max at every cell, eater or not.
eat_unmasked(eater_energy, eaten_energy, eat_max, loss) ==
    Let(Tab([x \in Cells |-> safe_sub(eaten_energy[x], U8(eat_max))]),
        LAMBDA eaten :
            <<Tab([x \in Cells |->
                  safe_add(eater_energy[x], U8(eaten_energy[x] - eaten[x]) \div loss)]),
              eaten>>)

\* World.eat: the pair (eater_energy, eaten_energy) after the call.
eat(eater_energy, eaten_energy, eat_max, loss) ==
    Let(Tab([x \in Cells |->
            safe_sub(eaten_energy[x],
                     U8((IF eater_energy[x] > 0 THEN 1 ELSE 0) * eat_max))]),
        LAMBDA eaten :
            <<Tab([x \in Cells |->
                  safe_add(eater_energy[x], U8(eaten_energy[x] - eaten[x]) \div loss)]),
              eaten>>)

\* seed_germination of World.germinate at a cell: the uint8 seed and-ed with
\* two boolean values keeps its lowest bit.
SeedGermination(seed, e, germination_odds, rand) ==
    IF ~(e > 0) /\ (rand % germination_odds) = 0 THEN seed % 2 ELSE 0

\* A variant of germinate that does not look at the seed flag.
germinate_unseeded(seeds, plant_energy, germination_odds, rand_tensor) ==
    <<Tab([x \in Cells |->
          safe_sub(seeds[x], SeedGermination(1, plant_energy[x],
                                             germination_odds, rand_tensor[x]))]),
      Tab([x \in Cells |->
          safe_add(plant_energy[x], SeedGermination(1, plant_energy[x],
                                                    germination_odds, rand_tensor[x]))])>>

\* World.germinate: the pair (seeds, plant_energy) after the call.
germinate(seeds, plant_energy, germination_odds, rand_tensor) ==
    <<Tab([x \in Cells |->
          safe_sub(seeds[x], SeedGermination(seeds[x], plant_energy[x],
                                             germination_odds, rand_tensor[x]))]),
      Tab([x \in Cells |->
          safe_add(plant_energy[x], SeedGermination(seeds[x], plant_energy[x],
                                                    germination_odds, rand_tensor[x]))])>>

\* A variant of GrowsAt that does not ask for a plant at the cell.
GrowsAtAnyCell(e, fertility, crowding, growth_odds, crowding_odds, rand) ==
    /\ safe_add(e, fertility) <= rand % growth_odds
    /\ (rand % crowding_odds) >= crowding

\* Whether the cell of World.grow with these values gains a unit.
GrowsAt(e, fertility, crowding, growth_odds, crowding_odds, rand) ==
    /\ e > 0
    /\ safe_add(e, fertility) <= rand % growth_odds
    /\ (rand % crowding_odds) >= crowding

\* World.grow: plant_energy after the call.
grow(plant_energy, growth_odds, crowding, crowding_odds, fertility_map, rand_tensor) ==
    Tab([x \in Cells |->
        safe_add(plant_energy[x],
                 IF GrowsAt(plant_energy[x], fertility_map[x], crowding[x],
                            growth_odds, crowding_odds, rand_tensor[x])
                 THEN 1 ELSE 0)])

Abs(n) == IF n < 0 THEN -n ELSE n

\* util.generate_plant_crowding_kernel: the weight of the neighbour at offset
\* (dr, dc) in the 5 x 5 window; the weights sum to 24.
generate_plant_crowding_kernel(dr, dc) ==
    CASE Abs(dr) + Abs(dc) = 0 -> 0
      [] Abs(dr) + Abs(dc) = 1 -> 2
      [] Abs(dr) + Abs(dc) = 4 -> 0
      [] OTHER -> 1

\* Whether the plant mask is set at (r, c); outside the grid it is not.
PlantAt(plant_energy, r, c) == IF At(plant_energy, r, c, 0) # 0 THEN 1 ELSE 0

\* The part of the crowding correlation at x that row x[1] + dr gives.
CrowdingRow(plant_energy, x, dr) ==
    generate_plant_crowding_kernel(dr, -2) * PlantAt(plant_energy, x[1] + dr, x[2] - 2)
    + generate_plant_crowding_kernel(dr, -1) * PlantAt(plant_energy, x[1] + dr, x[2] - 1)
    + generate_plant_crowding_kernel(dr, 0) * PlantAt(plant_energy, x[1] + dr, x[2])
    + generate_plant_crowding_kernel(dr, 1) * PlantAt(plant_energy, x[1] + dr, x[2] + 1)
    + generate_plant_crowding_kernel(dr, 2) * PlantAt(plant_energy, x[1] + dr, x[2] + 2)

\* torch_correlate_2d(plant_mask, generate_plant_crowding_kernel(),
\* mode='constant'): the weighted count of the plants around each cell.
plant_crowding(plant_energy) ==
    Tab([x \in Cells |->
        CrowdingRow(plant_energy, x, -2) + CrowdingRow(plant_energy, x, -1)
        + CrowdingRow(plant_energy, x, 0) + CrowdingRow(plant_energy, x, 1)
        + CrowdingRow(plant_energy, x, 2)])

\* The largest r in lo .. hi with r * r <= n, by bisection.
RECURSIVE IsqrtIn(_, _, _)
IsqrtIn(n, lo, hi) ==
    IF lo = hi THEN lo
    ELSE IF ((lo + hi + 1) \div 2) * ((lo + hi + 1) \div 2) <= n
         THEN IsqrtIn(n, (lo + hi + 1) \div 2, hi)
         ELSE IsqrtIn(n, lo, ((lo + hi + 1) \div 2) - 1)

\* The integer part of the square root of n < 65536: torch.pow(_, 0.5) cast
\* to an integer type.
Isqrt(n) == Let(n, LAMBDA v : IsqrtIn(v, 0, 255))

\* util.generate_diffusion_kernel: the 3 x 3 stencil (1 2 1; 2 4 2; 1 2 1) / 16.
generate_diffusion_kernel(dr, dc) ==
    CASE Abs(dr) + Abs(dc) = 0 -> 4
      [] Abs(dr) + Abs(dc) = 1 -> 2
      [] OTHER -> 1

\* scent ** 2 at (r, c); the correlation pads with zeros.
Squared(entity_scent, r, c) == At(entity_scent, r, c, 0) * At(entity_scent, r, c, 0)

\* The part of the diffusion correlation at x that row x[1] + dr gives.
DiffusionRow(entity_scent, x, dr) ==
    generate_diffusion_kernel(dr, -1) * Squared(entity_scent, x[1] + dr, x[2] - 1)
    + generate_diffusion_kernel(dr, 0) * Squared(entity_scent, x[1] + dr, x[2])
    + generate_diffusion_kernel(dr, 1) * Squared(entity_scent, x[1] + dr, x[2] + 1)

\* scent ** 2 correlated with the diffusion kernel, rooted and cast to uint8.
Diffused(entity_scent) ==
    Tab([x \in Cells |->
        U8(Isqrt((DiffusionRow(entity_scent, x, -1) + DiffusionRow(entity_scent, x, 0)
                  + DiffusionRow(entity_scent, x, 1)) \div 16))])

\* One channel of World.diffuse_scent with diffusion_steps = 1: the diffused
\* scent less 1, plus energy // 4 (both saturating), and zero under an obstacle.
diffuse_scent(entity_energy, entity_scent, mask) ==
    Let(Diffused(entity_scent),
        LAMBDA diffused :
            Tab([x \in Cells |->
                IF mask[x] = 0
                THEN safe_add(safe_sub(diffused[x], 1), entity_energy[x] \div 4)
                ELSE 0]))

---------------------------------------------------------------------------
(* State *)

VARIABLES
    world_tensor,  \* the H x W x C uint8 tensor, one field per feature channel
    plant_dict,    \* instance attributes set on the plant entity by update()
    prev,          \* the world tensor before the last operation
    pre_clear,     \* the world tensor of the last tick before its clear_on_death pass
    op,            \* the last operation
    args,          \* the inputs of the last operation
    stats,         \* the statistics returned by the last tick
    step,          \* the step index the next tick is given
    ticks          \* the number of operations so far

vars == <<world_tensor, plant_dict, prev, pre_clear, op, args, stats, step, ticks>>

\* The feature channels of the default config, entity by entity.
Channels ==
    {"pred_energy", "pred_scent", "pred_offspring_count", "pred_id_0", "pred_id_1",
     "plant_energy", "plant_scent", "fertility_map", "seed", "crowding",
     "herb_energy", "herb_scent", "herb_offspring_count", "herb_id_0", "herb_id_1",
     "mask"}

\* World._initialize_world_tensor: torch.zeros((size, size, total_features)).
ZeroWorld == [ch \in Channels |-> ZeroGrid]

\* No instance attribute shadows a feature: BaseEntity.__getattr__ answers
\* with the view stored in features[name].tensor.
NoAttr == [kind |-> "unset", val |-> ZeroGrid]
EmptyDict == [crowding |-> NoAttr, seed |-> NoAttr]

ZeroStats ==
    [seed_count |-> 0, plant_mass |-> 0, herbivore_mass |-> 0,
     predator_mass |-> 0, herbivore_offspring_count |-> 0]

NoArgs == [step |-> 0, rand |-> ZeroGrid, eat_max |-> 0, loss |-> 1]

\* g with the value v at cell x.
Put(g, x, v) == [g EXCEPT ![x] = v]

\* w with an entity of the given kind ("herb" or "pred") at cell x; an entity
\* of energy 0 is no entity and leaves no features behind.
WithEntity(w, kind, x, e, oc, i0, i1) ==
    IF e = 0 THEN w
    ELSE [w EXCEPT ![kind \o "_energy"] = Put(@, x, e),
                   ![kind \o "_offspring_count"] = Put(@, x, oc),
                   ![kind \o "_id_0"] = Put(@, x, i0),
                   ![kind \o "_id_1"] = Put(@, x, i1)]

---------------------------------------------------------------------------
(* World.update *)

\* BaseEntity.__getattr__ for a plant feature: an instance attribute of that
\* name, when update() has set one, is found before __getattr__ is asked; it
\* is either the feature's own view of the world tensor or another tensor.
PlantFeature(w, dict, name) ==
    IF dict[name].kind = "own" THEN dict[name].val ELSE w[name]

\* uint8 | bool.
OrBit(v, b) == IF b /\ v % 2 = 0 THEN v + 1 ELSE v

\* The growth block of update(), run when step % plant_growth_step_modulo = 0:
\* plant.crowding is assigned the correlation (a new tensor, held by the
\* entity), grow and germinate write plant.energy in place, and plant.seed is
\* or-ed in place and assigned back (the same view).
GrowthBlock(w, dict, rand_array) ==
    Let([dict EXCEPT !.crowding = [kind |-> "own", val |-> plant_crowding(w.plant_energy)]],
        LAMBDA d1 :
            Let(<<grow(w.plant_energy, plant_growth_odds, PlantFeature(w, d1, "crowding"),
                       plant_crowding_odds, w.fertility_map, rand_array),
                  Tab([x \in Cells |->
                      OrBit(w.seed[x],
                            PlantFeature(w, d1, "crowding")[x]
                                > rand_array[x] % plant_seed_odds)])>>,
                LAMBDA es :
                    Let(germinate(es[2], es[1], plant_germination_odds, rand_array),
                        LAMBDA g :
                            [world |-> [w EXCEPT !.plant_energy = g[2], !.seed = g[1]],
                             dict |-> [d1 EXCEPT !.seed = [kind |-> "view", val |-> ZeroGrid]],
                             grown |-> [w EXCEPT !.plant_energy = es[1]]])))

\* The clear_on_death pass of update(): every tagged feature of an entity is
\* multiplied by (entity.energy > 0).
\* A variant of ClearedFeatures in which id_1 carries no clear_on_death tag.
ClearedFeaturesWithoutId1(kind) ==
    <<kind \o "_offspring_count", kind \o "_id_0">>

ClearedFeatures(kind) ==
    <<kind \o "_offspring_count", kind \o "_id_0", kind \o "_id_1">>

ClearStep(w, energy, f) ==
    [w EXCEPT ![f] = Tab([x \in Cells |-> IF w[energy][x] > 0 THEN w[f][x] ELSE 0])]

RECURSIVE ClearFeatures(_, _, _)
ClearFeatures(w, energy, feats) ==
    IF feats = <<>> THEN w
    ELSE Let(ClearStep(w, energy, Head(feats)),
             LAMBDA w1 : ClearFeatures(w1, energy, Tail(feats)))

clear_on_death(w) ==
    Let(ClearFeatures(w, "pred_energy", ClearedFeatures("pred")),
        LAMBDA w1 : ClearFeatures(w1, "herb_energy", ClearedFeatures("herb")))

\* A variant of Tax that subtracts in uint8 without saturating.
TaxWrapping(g, tax) == Tab([x \in Cells |-> U8(g[x] - tax)])

\* The energy tax of update(): safe_sub(energy, tax).
Tax(g, tax) == Tab([x \in Cells |-> safe_sub(g[x], tax)])

\* The values update() returns.
Stats(w) ==
    [seed_count |-> GridSum(w.seed),
     plant_mass |-> GridSum(w.plant_energy),
     herbivore_mass |-> GridSum(w.herb_energy),
     predator_mass |-> GridSum(w.pred_energy),
     herbivore_offspring_count |-> GridSum(w.herb_offspring_count)]

\* The two eat calls of update(): herbivores eat plants, predators herbivores.
HerbivoreEat(w) ==
    Let(eat(w.herb_energy, w.plant_energy, herbivore_eat_max, eat_efficiency_loss),
        LAMBDA e : [w EXCEPT !.herb_energy = e[1], !.plant_energy = e[2]])

PredatorEat(w) ==
    Let(eat(w.pred_energy, w.herb_energy, predator_eat_max, eat_efficiency_loss),
        LAMBDA e : [w EXCEPT !.pred_energy = e[1], !.herb_energy = e[2]])

\* diffuse_scent(self.energy, self.scent, mask=self.obstacle.mask): the three
\* channels of the scent group, each with its channel of the energy group.
DiffuseAll(w) ==
    [w EXCEPT
        !.pred_scent = diffuse_scent(w.pred_energy, w.pred_scent, w.mask),
        !.plant_scent = diffuse_scent(w.plant_energy, w.plant_scent, w.mask),
        !.herb_scent = diffuse_scent(w.herb_energy, w.herb_scent, w.mask)]

\* A record r extended with the field named k.
With(r, k, v) == (k :> v) @@ r

\* The statements of update() after the growth block, each applied to the
\* world the one before left; the record keeps the world after each of them.
Stage(r, k, F(_)) == Let(F(r.now), LAMBDA v : With(With(r, k, v), "now", v))

\* The stages of World.update(step) with the random field rand_array, each
\* the world tensor after that statement of update().
UpdateStages(w, dict, stp, rand_array) ==
    Let(IF stp % plant_growth_step_modulo = 0
        THEN GrowthBlock(w, dict, rand_array)
        ELSE [world |-> w, dict |-> dict, grown |-> w],
    LAMBDA gb :
    Let(Stage([now |-> gb.world, dict |-> gb.dict, grown |-> gb.grown,
               germinated |-> gb.world],
              "herb_moved", move_herbivore),
    LAMBDA r2 :
    Let(Stage(r2, "herb_taxed", LAMBDA v : [v EXCEPT !.herb_energy = Tax(v.herb_energy, 2)]),
    LAMBDA r3 :
    Let(Stage(r3, "pred_moved", move_predator),
    LAMBDA r4 :
    Let(Stage(r4, "pred_taxed", LAMBDA v : [v EXCEPT !.pred_energy = Tax(v.pred_energy, 1)]),
    LAMBDA r5 :
    Let(Stage(r5, "herb_ate", HerbivoreEat),
    LAMBDA r6 :
    Let(Stage(r6, "pred_ate", PredatorEat),
    LAMBDA r7 :
    Let(Stage(r7, "diffused", DiffuseAll),
    LAMBDA r8 : Stage(r8, "cleared", clear_on_death)))))))))

\* The random fields of a tick: torch.randint(0, 255) draws each cell from
\* 0 .. 254; the model draws the field of zeros, or rows of 0 and of 254.
RandFields ==
    {ZeroGrid, Tab([x \in Cells |-> IF x[1] % 2 = 0 THEN 0 ELSE 254])}

\* The number of ticks a behaviour runs.
MaxTicks == 2

PlantCells == {<<1, 1>>, <<1, 2>>, <<2, 2>>, <<3, 2>>}
SeedCells == {<<0, 0>>, <<2, 2>>, <<3, 3>>}

TickWorld(pe, fert, seeded, ps, eA, a0, eP, hs) ==
    LET w0 == [ZeroWorld EXCEPT
                 !.plant_energy = Tab([x \in Cells |-> IF x \in PlantCells THEN pe ELSE 0]),
                 !.fertility_map = Tab([x \in Cells |-> fert]),
                 !.seed = Tab([x \in Cells |-> IF seeded /\ x \in SeedCells THEN 1 ELSE 0]),
                 !.plant_scent = Put(@, <<2, 2>>, ps),
                 !.herb_scent = Put(@, <<2, 3>>, hs)]
        w1 == WithEntity(w0, "herb", <<3, 2>>, eA, 1, a0, 1)
        w2 == WithEntity(w1, "herb", <<0, 4>>, IF eA > 0 THEN 1 ELSE 0, 3, 7, 2)
    IN  WithEntity(w2, "pred", <<2, 2>>, eP, 0, 255, 0)

Init ==
    /\ \E pe \in {0, 1, 255}, seeded \in BOOLEAN, scented \in BOOLEAN,
          eA \in {0, 2, 255}, eP \in {0, 252} :
            world_tensor = TickWorld(pe, IF seeded THEN 0 ELSE 200, seeded,
                                     IF scented THEN 200 ELSE 0, eA, 255, eP,
                                     IF scented THEN 255 ELSE 0)
    /\ plant_dict = EmptyDict
    /\ prev = world_tensor
    /\ pre_clear = world_tensor
    /\ op = "init"
    /\ args = NoArgs
    /\ stats = ZeroStats
    /\ step \in {0, 1}
    /\ ticks = 0

\* One tick: world.update(step) with a freshly drawn random field.
Update ==
    /\ ticks < MaxTicks
    /\ ticks' = ticks + 1
    /\ \E rand_array \in RandFields :
          \E u \in {UpdateStages(world_tensor, plant_dict, step, rand_array)} :
              /\ world_tensor' = u.cleared
              /\ plant_dict' = u.dict
              /\ pre_clear' = u.diffused
              /\ stats' = Stats(u.cleared)
              /\ args' = [NoArgs EXCEPT !.step = step, !.rand = rand_array]
    /\ prev' = world_tensor
    /\ op' = "update"
    /\ step' = step + 1

Next == Update

Spec == Init /\ [][Next]_vars

---------------------------------------------------------------------------
(* World.move called on its own, as update() calls it *)

\* The number of calls a behaviour makes.
MaxCalls == 1

\* Where the scent peak t, the mover a and a second entity b of its kind stand.
Layouts ==
    { [t |-> <<2, 2>>, a |-> <<3, 2>>, b |-> <<4, 4>>],
      [t |-> <<2, 2>>, a |-> <<3, 2>>, b |-> <<2, 1>>],
      [t |-> <<2, 2>>, a |-> <<2, 1>>, b |-> <<2, 2>>],
      [t |-> <<0, 2>>, a |-> <<1, 2>>, b |-> <<4, 4>>],
      [t |-> <<2, 2>>, a |-> <<2, 3>>, b |-> <<0, 0>>],
      [t |-> <<3, 2>>, a |-> <<2, 2>>, b |-> <<4, 2>>] }

MoverEnergies == {200, 250, 251, 255}
OtherEnergies == {0, 100, 252}

Other(kind) == IF kind = "herb" THEN "pred" ELSE "herb"
Attractant(kind) == IF kind = "herb" THEN "plant_scent" ELSE "herb_scent"

MoveWorld(kind, l, eA, a0, a1, eB, b0, bystander) ==
    LET w0 == [ZeroWorld EXCEPT ![Attractant(kind)] = Put(@, l.t, 200)]
        w1 == WithEntity(w0, kind, l.a, eA, 1, a0, a1)
        w2 == WithEntity(w1, kind, l.b, eB, 0, b0, 2)
    IN  IF bystander THEN WithEntity(w2, Other(kind), l.a, 50, 2, 9, 4) ELSE w2

InitMove ==
    /\ \E kind \in {"herb", "pred"}, l \in Layouts, eA \in MoverEnergies,
          a0 \in {5, 255}, a1 \in {1, 255}, eB \in OtherEnergies,
          b0 \in {6, 255}, bystander \in BOOLEAN :
            world_tensor = MoveWorld(kind, l, eA, a0, a1, eB, b0, bystander)
    /\ plant_dict = EmptyDict
    /\ prev = world_tensor
    /\ pre_clear = world_tensor
    /\ op = "init"
    /\ args = NoArgs
    /\ stats = ZeroStats
    /\ step = 0
    /\ ticks = 0

MoveHerbivoreCall ==
    /\ ticks < MaxCalls
    /\ world_tensor' = move_herbivore(world_tensor)
    /\ prev' = world_tensor
    /\ op' = "move_herbivore"
    /\ ticks' = ticks + 1
    /\ UNCHANGED <<plant_dict, pre_clear, args, stats, step>>

MovePredatorCall ==
    /\ ticks < MaxCalls
    /\ world_tensor' = move_predator(world_tensor)
    /\ prev' = world_tensor
    /\ op' = "move_predator"
    /\ ticks' = ticks + 1
    /\ UNCHANGED <<plant_dict, pre_clear, args, stats, step>>

NextMove == MoveHerbivoreCall \/ MovePredatorCall

SpecMove == InitMove /\ [][NextMove]_vars

---------------------------------------------------------------------------
(* World.eat called on its own *)

\* The field with a on the even rows and b on the odd ones, and the field
\* with a on the even columns and b on the odd ones.
RowStripes(a, b) == Tab([x \in Cells |-> IF x[1] % 2 = 0 THEN a ELSE b])
ColStripes(a, b) == Tab([x \in Cells |-> IF x[2] % 2 = 0 THEN a ELSE b])

EaterValues == {0, 10, 254, 255}
EatenValues == {0, 5, 16, 200}
EatMaxValues == {0, 1, 16, 255}
LossValues == {1, 4, 7}

InitEat ==
    /\ \E a \in EaterValues, b \in EaterValues, c \in EatenValues, d \in EatenValues :
          world_tensor = [ZeroWorld EXCEPT !.herb_energy = RowStripes(a, b),
                                           !.plant_energy = ColStripes(c, d)]
    /\ plant_dict = EmptyDict
    /\ prev = world_tensor
    /\ pre_clear = world_tensor
    /\ op = "init"
    /\ args = NoArgs
    /\ stats = ZeroStats
    /\ step = 0
    /\ ticks = 0

\* eat(herbivore.energy, plant.energy, eat_max, eat_efficiency_loss).
EatCall ==
    /\ ticks < MaxCalls
    /\ \E eat_max \in EatMaxValues, loss \in LossValues :
          \E e \in {eat(world_tensor.herb_energy, world_tensor.plant_energy, eat_max, loss)} :
              /\ world_tensor' = [world_tensor EXCEPT !.herb_energy = e[1],
                                                      !.plant_energy = e[2]]
              /\ args' = [NoArgs EXCEPT !.eat_max = eat_max, !.loss = loss]
    /\ prev' = world_tensor
    /\ op' = "eat"
    /\ ticks' = ticks + 1
    /\ UNCHANGED <<plant_dict, pre_clear, stats, step>>

NextEat == EatCall

SpecEat == InitEat /\ [][NextEat]_vars

---------------------------------------------------------------------------
(* World.grow called on its own *)

PlantValues == {0, 1, 54, 255}
FertilityValues == {0, 100, 200, 255}
CrowdingValues == {0, 4, 5, 24}
GrowRandValues == {0, 4, 100, 254}

InitGrow ==
    /\ \E a \in PlantValues, b \in PlantValues, f \in FertilityValues,
          c \in CrowdingValues, d \in CrowdingValues :
          world_tensor = [ZeroWorld EXCEPT !.plant_energy = RowStripes(a, b),
                                           !.fertility_map = RowStripes(f, f),
                                           !.crowding = ColStripes(c, d)]
    /\ plant_dict = EmptyDict
    /\ prev = world_tensor
    /\ pre_clear = world_tensor
    /\ op = "init"
    /\ args = NoArgs
    /\ stats = ZeroStats
    /\ step = 0
    /\ ticks = 0

\* grow(plant.energy, plant_growth_odds, crowding, plant_crowding_odds,
\* plant.fertility_map, rand_tensor) with the scalars of World.__init__.
GrowCall ==
    /\ ticks < MaxCalls
    /\ \E r \in GrowRandValues :
          \E rand_tensor \in {RowStripes(r, r)} :
              /\ world_tensor' =
                    [world_tensor EXCEPT !.plant_energy =
                        grow(world_tensor.plant_energy, plant_growth_odds,
                             world_tensor.crowding, plant_crowding_odds,
                             world_tensor.fertility_map, rand_tensor)]
              /\ args' = [NoArgs EXCEPT !.rand = rand_tensor]
    /\ prev' = world_tensor
    /\ op' = "grow"
    /\ ticks' = ticks + 1
    /\ UNCHANGED <<plant_dict, pre_clear, stats, step>>

NextGrow == GrowCall

SpecGrow == InitGrow /\ [][NextGrow]_vars

---------------------------------------------------------------------------
(* Properties of World.move (SpecMove) *)

Clamp(n) == IF n < 0 THEN 0 ELSE IF n > 255 THEN 255 ELSE n
Min(a, b) == IF a < b THEN a ELSE b

IsMove == op \in {"move_herbivore", "move_predator"}

\* The kind that the last move call moved, and its energy channel.
MovedKind == IF op = "move_predator" THEN "pred" ELSE "herb"
MovedEnergy == MovedKind \o "_energy"

\* The target field and the direction masks of the last move call, from the
\* world it was given.
LastTarget ==
    IF op = "move_predator" THEN PredatorMove(prev).target ELSE HerbivoreMove(prev).target
LastMasks == direction_masks(prev[MovedEnergy], LastTarget)

\* The neighbour of x on side d.
Dest(x, d) == <<x[1] + DRow(d), x[2] + DCol(d)>>

\* The cells holding an entity of the moved kind before the last call.
Movers == {x \in Cells : prev[MovedEnergy][x] > 0}

\* C1: movement conserves energy under simple translation. If no cell of the
\* mover's energy field exceeds the divide threshold, one call of World.move
\* leaves the sum of that field unchanged: every origin is left at 0 and its
\* energy reappears, unmodified, at its destination cell.
C1_MoveConservesEnergy ==
    (IsMove /\ \A x \in Cells : prev[MovedEnergy][x] <= divide_threshold) =>
        \A dm \in {LastMasks} :
            /\ GridSum(world_tensor[MovedEnergy]) = GridSum(prev[MovedEnergy])
            /\ \A x \in Cells, d \in Directions :
                  dm[d][x] = 1 =>
                      /\ world_tensor[MovedEnergy][x] = 0
                      /\ world_tensor[MovedEnergy][Dest(x, d)] = prev[MovedEnergy][x]

\* A move call without division in which an entity at the threshold moved.
C1_Witness ==
    /\ IsMove
    /\ \A x \in Cells : prev[MovedEnergy][x] <= divide_threshold
    /\ \E x \in Cells :
          /\ prev[MovedEnergy][x] = divide_threshold
          /\ world_tensor[MovedEnergy][x] = 0
          /\ \E d \in Directions :
                InGrid(x[1] + DRow(d), x[2] + DCol(d))
                /\ world_tensor[MovedEnergy][Dest(x, d)] = divide_threshold

\* The grid holds one entity of the moved kind, above the divide threshold,
\* and nothing else alive; the entity at x moved in direction d.
LoneDivider(x, d) ==
    /\ IsMove
    /\ Movers = {x}
    /\ prev[MovedEnergy][x] > divide_threshold
    /\ \A y \in Cells : prev[IF MovedKind = "herb" THEN "pred_energy" ELSE "herb_energy"][y] = 0
    /\ \A y \in Cells : prev.plant_energy[y] = 0
    /\ LastMasks[d][x] = 1

\* C2 as stated: when a single entity with energy e > 250 moves, the origin
\* holds e // 2 and the destination gains e // 2.
C2_DivisionHalves ==
    \A x \in Cells, d \in Directions :
        LoneDivider(x, d) =>
            /\ world_tensor[MovedEnergy][x] = prev[MovedEnergy][x] \div 2
            /\ world_tensor[MovedEnergy][Dest(x, d)] = prev[MovedEnergy][x] \div 2
            /\ GridSum(world_tensor[MovedEnergy]) = 2 * (prev[MovedEnergy][x] \div 2)

\* C2, amended: when a single entity with energy e > 250 moves, the
\* destination gains e // 2 and the origin is left with e // 4, so the total
\* energy of the kind is e // 2 + e // 4.
C2_DivisionHalfAndQuarter ==
    \A x \in Cells, d \in Directions :
        LoneDivider(x, d) =>
            /\ world_tensor[MovedEnergy][Dest(x, d)] = prev[MovedEnergy][x] \div 2
            /\ world_tensor[MovedEnergy][x] = prev[MovedEnergy][x] \div 4
            /\ GridSum(world_tensor[MovedEnergy]) =
                  (prev[MovedEnergy][x] \div 2) + (prev[MovedEnergy][x] \div 4)

\* A lone entity of energy 255 moved and divided.
C2_Witness ==
    \E x \in Cells, d \in Directions :
        /\ LoneDivider(x, d)
        /\ prev[MovedEnergy][x] = 255
        /\ world_tensor[MovedEnergy][Dest(x, d)] = 127

\* The herbivore cell that the last herbivore move carried into x, if any.
ArrivedFrom(dm, x) ==
    {y \in Cells : \E d \in Directions : dm[d][y] = 1 /\ Dest(y, d) = x}

\* C4: lineage carry. During a herbivore move, an offspring-producing origin
\* has its id_0 incremented, and its id_1 increased by exactly 1 when its
\* id_0 was 255 before the increment; at every other cell the ids are what
\* movement alone makes them (the mover's ids at a destination, nothing at a
\* vacated origin, the old ids elsewhere): id_1 is not incremented there.
C4_LineageCarry ==
    op = "move_herbivore" =>
        \A dm \in {LastMasks} :
            \A x \in Cells :
                IF (\E d \in Directions : dm[d][x] = 1)
                THEN IF prev.herb_energy[x] > divide_threshold
                     THEN /\ world_tensor.herb_id_0[x] = U8(prev.herb_id_0[x] + 1)
                          /\ world_tensor.herb_id_1[x] =
                                IF prev.herb_id_0[x] = 255
                                THEN prev.herb_id_1[x] + 1
                                ELSE prev.herb_id_1[x]
                     ELSE /\ world_tensor.herb_id_0[x] = 0
                          /\ world_tensor.herb_id_1[x] = 0
                ELSE IF ArrivedFrom(dm, x) # {}
                     THEN \A y \in ArrivedFrom(dm, x) :
                              /\ world_tensor.herb_id_0[x] = prev.herb_id_0[y]
                              /\ world_tensor.herb_id_1[x] = prev.herb_id_1[y]
                     ELSE /\ world_tensor.herb_id_0[x] = prev.herb_id_0[x]
                          /\ world_tensor.herb_id_1[x] = prev.herb_id_1[x]

\* Whether the entity at x, wanting to go in direction d, finds an occupied
\* cell (or the grid edge) in its clearance window.
Blocked(x, d) ==
    /\ prev[MovedEnergy][x] > 0
    /\ get_direction_matrix(LastTarget)[x] = d
    /\ correlate_any(ClearanceMask(prev[MovedEnergy]),
                     directional_kernel_set(clearance_kernel_size, d), x, 1)

\* C7: clearance suppresses movement. An entity whose clearance window in
\* its chosen direction holds an occupied cell keeps its energy and its
\* carried features at its cell, unchanged, and the cell it wanted to reach
\* gains no energy.
C7_ClearanceSuppressesMove ==
    IsMove =>
        \A x \in Cells, d \in Directions :
            Blocked(x, d) =>
                /\ world_tensor[MovedEnergy][x] = prev[MovedEnergy][x]
                /\ \A f \in {"_offspring_count", "_id_0", "_id_1"} :
                      world_tensor[MovedKind \o f][x] = prev[MovedKind \o f][x]
                /\ InGrid(x[1] + DRow(d), x[2] + DCol(d)) =>
                      world_tensor[MovedEnergy][Dest(x, d)] <= prev[MovedEnergy][Dest(x, d)]

---------------------------------------------------------------------------
(* Properties of World.eat (SpecEat) *)

\* What the eater at a cell takes from the eaten field: up to eat_max where
\* an eater is present, nothing elsewhere.
Taken(eater, eaten, eat_max) == IF eater > 0 THEN Min(eaten, eat_max) ELSE 0

\* C5: eating transfer. At every cell World.eat leaves
\* eaten' = eaten - min(eaten, eat_max) where the eater is present and
\* eaten' = eaten elsewhere, and eater' = min(255, eater + (eaten - eaten') // L).
C5_EatTransfer ==
    op = "eat" =>
        \A x \in Cells :
            /\ world_tensor.plant_energy[x] =
                  prev.plant_energy[x]
                  - Taken(prev.herb_energy[x], prev.plant_energy[x], args.eat_max)
            /\ world_tensor.herb_energy[x] =
                  Min(255, prev.herb_energy[x]
                           + (prev.plant_energy[x] - world_tensor.plant_energy[x])
                                 \div args.loss)

\* Eater 10 on eaten 5 with eat_max 16 and L 4 gave eater 11 and eaten 0,
\* next to a cell without eater that kept its 5 and gained nothing.
C5_Witness ==
    /\ op = "eat"
    /\ args.eat_max = 16
    /\ args.loss = 4
    /\ \E x \in Cells :
          /\ prev.herb_energy[x] = 10 /\ prev.plant_energy[x] = 5
          /\ world_tensor.herb_energy[x] = 11 /\ world_tensor.plant_energy[x] = 0
    /\ \E x \in Cells :
          /\ prev.herb_energy[x] = 0 /\ prev.plant_energy[x] = 5
          /\ world_tensor.herb_energy[x] = 0 /\ world_tensor.plant_energy[x] = 5

---------------------------------------------------------------------------
(* Properties of World.grow (SpecGrow) *)

\* C10: growth is monotone in fertility and crowding. If a cell with plant
\* energy > 0 grew with fertility f and crowding c, it also grows, for the
\* same random byte and odds, with any fertility f2 >= f and crowding c2 <= c.
C10_GrowthMonotone ==
    op = "grow" =>
        \A x \in Cells :
            (prev.plant_energy[x] > 0
             /\ world_tensor.plant_energy[x] = prev.plant_energy[x] + 1) =>
                \A f2 \in FertilityValues, c2 \in CrowdingValues :
                    (f2 >= prev.fertility_map[x] /\ c2 <= prev.crowding[x]) =>
                        GrowsAt(prev.plant_energy[x], f2, c2, plant_growth_odds,
                                plant_crowding_odds, args.rand[x])

---------------------------------------------------------------------------
(* Properties of World.update (Spec) *)

Kinds == {"herb", "pred"}

\* C6: clear-on-death. After every tick, a cell where a kind's energy is zero
\* holds zero in that kind's offspring_count, id_0 and id_1; where the energy
\* is nonzero the clearing pass changed none of them, and it changed no energy.
C6_ClearOnDeath ==
    op = "update" =>
        \A k \in Kinds, x \in Cells :
            /\ world_tensor[k \o "_energy"][x] = pre_clear[k \o "_energy"][x]
            /\ \A f \in {"_offspring_count", "_id_0", "_id_1"} :
                  world_tensor[k \o f][x] =
                      IF world_tensor[k \o "_energy"][x] = 0 THEN 0
                      ELSE pre_clear[k \o f][x]

\* A tick in which a herbivore starved with its three features set and had
\* them cleared, while a living predator kept its id.
C6_Witness ==
    /\ op = "update"
    /\ \E x \in Cells :
          /\ world_tensor.herb_energy[x] = 0
          /\ pre_clear.herb_offspring_count[x] > 0
          /\ pre_clear.herb_id_0[x] > 0
          /\ pre_clear.herb_id_1[x] > 0
          /\ world_tensor.herb_offspring_count[x] = 0
    /\ \E y \in Cells :
          /\ world_tensor.pred_energy[y] > 0
          /\ world_tensor.pred_id_0[y] > 0
          /\ world_tensor.pred_id_0[y] = pre_clear.pred_id_0[y]

\* C8: feature views alias the world tensor. For every declared feature,
\* plant.crowding and plant.seed included, what the entity attribute reads is
\* the storage of its channel of world_tensor, so both hold equal values.
C8_FeatureViewsAlias ==
    \A name \in {"crowding", "seed"} :
        /\ plant_dict[name].kind # "own"
        /\ PlantFeature(world_tensor, plant_dict, name) = world_tensor[name]

EnergiesZero(w) ==
    \A x \in Cells :
        w.plant_energy[x] = 0 /\ w.herb_energy[x] = 0 /\ w.pred_energy[x] = 0

\* C9 as stated: a tick on a grid whose plant, herbivore and predator energy
\* is zero everywhere, with the random field all zero, returns zero stats and
\* leaves every channel unchanged.
C9_NoOpTick ==
    (op = "update" /\ EnergiesZero(prev) /\ args.rand = ZeroGrid) =>
        stats = ZeroStats /\ world_tensor = prev

\* Nothing is left of an entity: no scent, no seed, no tagged feature.
TracesZero(w) ==
    \A x \in Cells :
        /\ w.plant_scent[x] = 0 /\ w.herb_scent[x] = 0 /\ w.pred_scent[x] = 0
        /\ w.seed[x] = 0
        /\ \A k \in Kinds, f \in {"_offspring_count", "_id_0", "_id_1"} : w[k \o f][x] = 0

\* C9, amended: a tick on a grid whose energy, scent, seed and clear_on_death
\* channels are zero everywhere, with the random field all zero, returns zero
\* stats and leaves every channel unchanged.
C9_NoOpTickOnBareGrid ==
    (op = "update" /\ EnergiesZero(prev) /\ TracesZero(prev) /\ args.rand = ZeroGrid) =>
        stats = ZeroStats /\ world_tensor = prev

\* A growth tick ran on a bare grid with fertile soil and zero random field.
C9_Witness ==
    /\ op = "update"
    /\ args.step % plant_growth_step_modulo = 0
    /\ EnergiesZero(prev) /\ TracesZero(prev)
    /\ args.rand = ZeroGrid
    /\ \E x \in Cells : prev.fertility_map[x] > 0

---------------------------------------------------------------------------
(* Saturation of the rules of a tick (Spec) *)

\* The exact energy that World.move leaves at x, clamped: what stayed plus
\* what the neighbours sent (half of a divider, all of another mover), then a
\* quarter at an offspring origin and nothing at a vacated one.
ExactSent(e, dm, x, d) ==
    IF InGrid(x[1] - DRow(d), x[2] - DCol(d))
    THEN LET y == <<x[1] - DRow(d), x[2] - DCol(d)>>
         IN  IF dm[d][y] = 0 THEN 0
             ELSE IF e[y] > divide_threshold THEN e[y] \div 2 ELSE e[y]
    ELSE 0

ExactMoved(e, dm, x) ==
    LET sum == Clamp(e[x] + ExactSent(e, dm, x, 1) + ExactSent(e, dm, x, 2)
                     + ExactSent(e, dm, x, 3) + ExactSent(e, dm, x, 4))
    IN  IF \E d \in Directions : dm[d][x] # 0
        THEN IF e[x] > divide_threshold THEN sum \div 4 ELSE 0
        ELSE sum

MoveSaturates(before, after, p) ==
    \A dm \in {direction_masks(before[p.energy], p.target)} :
        \A x \in Cells : after[p.energy][x] = ExactMoved(before[p.energy], dm, x)

TaxSaturates(before, after, tax) ==
    \A x \in Cells : after[x] = Clamp(before[x] - tax)

EatSaturates(eater, eaten, eater2, eaten2, eat_max) ==
    \A x \in Cells :
        /\ eaten2[x] = Clamp(eaten[x] - (IF eater[x] > 0 THEN eat_max ELSE 0))
        /\ eater2[x] = Clamp(eater[x] + (eaten[x] - eaten2[x]) \div eat_efficiency_loss)

\* The growth block: grow adds 1 where its three conditions hold, germinate
\* adds 1 where a seeded empty cell draws rand % odds = 0.
GrowSaturates(before, after, rand) ==
    \A crowding \in {plant_crowding(before.plant_energy)} :
        \A x \in Cells :
            after.plant_energy[x] =
                Clamp(before.plant_energy[x]
                      + (IF /\ before.plant_energy[x] > 0
                            /\ Clamp(before.plant_energy[x] + before.fertility_map[x])
                                   <= rand[x] % plant_growth_odds
                            /\ rand[x] % plant_crowding_odds >= crowding[x]
                         THEN 1 ELSE 0))

GerminateSaturates(start, before, after, rand) ==
    \A crowding \in {plant_crowding(start.plant_energy)} :
        \A x \in Cells :
            after.plant_energy[x] =
                Clamp(before.plant_energy[x]
                      + (IF /\ (start.seed[x] % 2 = 1
                                \/ crowding[x] > rand[x] % plant_seed_odds)
                            /\ before.plant_energy[x] = 0
                            /\ rand[x] % plant_germination_odds = 0
                         THEN 1 ELSE 0))

\* The diffused scent is the integer part r of the root of the weighted mean
\* of the squares, 16 r^2 <= sum < 16 (r + 1)^2; the cell then loses 1 and
\* gains energy // 4.
DiffuseSaturates(energy, scent, mask, scent2) ==
    \A x \in Cells :
        \A sum \in {DiffusionRow(scent, x, -1) + DiffusionRow(scent, x, 0)
                    + DiffusionRow(scent, x, 1)} :
            \E r \in 0 .. 255 :
                /\ 16 * r * r <= sum
                /\ sum < 16 * (r + 1) * (r + 1)
                /\ scent2[x] = IF mask[x] = 0
                               THEN Clamp(Clamp(r - 1) + energy[x] \div 4)
                               ELSE 0

\* C3: saturation, never wrap-around. In every rule a tick runs (grow,
\* germinate, move, the energy tax, eat, diffuse_scent), each energy and
\* scent value that results is the exact result clamped to [0, 255].
C3_SaturatingArithmetic ==
    op = "update" =>
        \A s \in {UpdateStages(prev, EmptyDict, args.step, args.rand)} :
            /\ s.cleared = world_tensor
            /\ args.step % plant_growth_step_modulo = 0 =>
                  /\ GrowSaturates(prev, s.grown, args.rand)
                  /\ GerminateSaturates(prev, s.grown, s.germinated, args.rand)
            /\ MoveSaturates(s.germinated, s.herb_moved, HerbivoreMove(s.germinated))
            /\ TaxSaturates(s.herb_moved.herb_energy, s.herb_taxed.herb_energy, 2)
            /\ MoveSaturates(s.herb_taxed, s.pred_moved, PredatorMove(s.herb_taxed))
            /\ TaxSaturates(s.pred_moved.pred_energy, s.pred_taxed.pred_energy, 1)
            /\ EatSaturates(s.pred_taxed.herb_energy, s.pred_taxed.plant_energy,
                            s.herb_ate.herb_energy, s.herb_ate.plant_energy,
                            herbivore_eat_max)
            /\ EatSaturates(s.herb_ate.pred_energy, s.herb_ate.herb_energy,
                            s.pred_ate.pred_energy, s.pred_ate.herb_energy,
                            predator_eat_max)
            /\ \A k \in {"pred", "plant", "herb"} :
                  DiffuseSaturates(s.pred_ate[k \o "_energy"], s.pred_ate[k \o "_scent"],
                                   s.pred_ate.mask, s.diffused[k \o "_scent"])

\* A tick in which the arithmetic met both ends of the range: a herbivore
\* of energy 1 was taxed 2 and left with 0, and a herbivore of energy 253
\* ate 16 // 4 and was left with 255.
C3_Witness ==
    /\ op = "update"
    /\ \E s \in {UpdateStages(prev, EmptyDict, args.step, args.rand)} :
          /\ \E x \in Cells :
                /\ s.herb_moved.herb_energy[x] = 1
                /\ s.herb_taxed.herb_energy[x] = 0
          /\ \E y \in Cells :
                /\ s.pred_taxed.herb_energy[y] = 253
                /\ s.pred_taxed.plant_energy[y] >= 16
                /\ s.herb_ate.herb_energy[y] = 255

---------------------------------------------------------------------------
(* Birth of plants (Spec) *)

GrowthStep == args.step % plant_growth_step_modulo = 0

\* Whether the seed flag of x was set when germinate ran in the last tick:
\* it was set before the tick, or the tick set it because the crowding at x
\* exceeded rand % plant_seed_odds.
SeededAtGermination(crowding, x) ==
    \/ prev.seed[x] % 2 = 1
    \/ crowding[x] > args.rand[x] % plant_seed_odds

\* C11: plants are born only by gated germination. A cell whose plant energy
\* is zero before a tick has at most 1 after it, and nonzero only on a tick
\* with step % plant_growth_step_modulo = 0, with the cell's seed flag set
\* when germinate ran and rand % plant_germination_odds = 0 at the cell; a
\* cell that germinates has its seed flag cleared in the same tick; on the
\* other ticks no plant energy increases and no seed flag changes.
C11_GatedGermination ==
    op = "update" =>
        \A s \in {UpdateStages(prev, EmptyDict, args.step, args.rand)} :
            \A crowding \in {plant_crowding(prev.plant_energy)} :
                /\ s.cleared = world_tensor
                /\ \A x \in Cells :
                      /\ prev.plant_energy[x] = 0 =>
                            /\ world_tensor.plant_energy[x] <= 1
                            /\ world_tensor.plant_energy[x] # 0 =>
                                  /\ GrowthStep
                                  /\ SeededAtGermination(crowding, x)
                                  /\ args.rand[x] % plant_germination_odds = 0
                      /\ s.germinated.plant_energy[x] > s.grown.plant_energy[x] =>
                            world_tensor.seed[x] = 0
                      /\ ~GrowthStep =>
                            /\ world_tensor.plant_energy[x] <= prev.plant_energy[x]
                            /\ world_tensor.seed[x] = prev.seed[x]

\* A growth tick in which a seeded empty cell germinated and lost its seed
\* while another seeded cell, holding a plant, kept its seed.
C11_Witness ==
    /\ op = "update"
    /\ GrowthStep
    /\ \E x \in Cells :
          /\ prev.plant_energy[x] = 0 /\ prev.seed[x] = 1
          /\ world_tensor.plant_energy[x] = 1 /\ world_tensor.seed[x] = 0
    /\ \E y \in Cells :
          /\ prev.plant_energy[y] > 0 /\ prev.seed[y] = 1
          /\ world_tensor.seed[y] = 1

---------------------------------------------------------------------------
(* Frame of the predator move (SpecMove) *)

\* The channels a predator move may write: the predator's energy and its
\* own carried features.
PredatorMoveWrites ==
    {"pred_energy", "pred_offspring_count", "pred_id_0", "pred_id_1"}

\* C12: predator movement touches only predator state. The predator move
\* changes no herbivore feature (energy, scent, offspring_count, id_0, id_1)
\* at any cell and writes only the predator's energy and carried features,
\* and the offspring a dividing predator leaves at its origin has its
\* predator id_0 incremented, as the herbivore move does for herbivore ids.
C12_PredatorMoveFrame ==
    op = "move_predator" =>
        /\ \A ch \in Channels \ PredatorMoveWrites : world_tensor[ch] = prev[ch]
        /\ \A dm \in {LastMasks} :
              \A x \in Cells :
                  ((\E d \in Directions : dm[d][x] = 1)
                   /\ prev.pred_energy[x] > divide_threshold) =>
                      world_tensor.pred_id_0[x] = U8(prev.pred_id_0[x] + 1)

====
